---- MODULE Spec2Model ----
(***************************************************************************)
(* json-os.js: the $rdf term shim, the triple store (createStore) and the  *)
(* JSON-LD -> store translator (parseJsonLdToStore).                        *)
(*                                                                         *)
(* JavaScript strings are sequences of one-character strings, so that      *)
(* startsWith, replace, split and concatenation are computed character by  *)
(* character.  A JavaScript value is a record [t, s, n, e]: t is the type  *)
(* tag, s the text of a string, n a number (or 0/1 for a boolean), e the   *)
(* own enumerable entries <<[k, v], ...>> of an object or an array.        *)
(***************************************************************************)
EXTENDS Integers, Sequences, FiniteSets

VARIABLES doc, baseUri, pc, triples, root, calls, ret

vars == <<doc, baseUri, pc, triples, root, calls, ret>>

\* ---------------------------------------------------------------- strings

E == <<>>

StartsWith(s, pre) ==
    /\ Len(pre) <= Len(s)
    /\ SubSeq(s, 1, Len(pre)) = pre

\* String.prototype.indexOf, 1-based; 0 when pat does not occur
IndexOf(s, pat) ==
    LET hits == {i \in 1..(Len(s) - Len(pat) + 1) : SubSeq(s, i, i + Len(pat) - 1) = pat}
    IN IF hits = {} THEN 0 ELSE CHOOSE i \in hits : \A j \in hits : i <= j

LastIndexOf(s, pat) ==
    LET hits == {i \in 1..(Len(s) - Len(pat) + 1) : SubSeq(s, i, i + Len(pat) - 1) = pat}
    IN IF hits = {} THEN 0 ELSE CHOOSE i \in hits : \A j \in hits : j <= i

\* GetSubstitution of String.prototype.replace for a string pattern (no
\* capture groups): $$ -> $, $& -> the match; any other $ stays.  The two
\* patterns that insert the text before and after the match are written with
\* quote characters, which no string of the model contains.
RECURSIVE GetSubstitution(_, _)
GetSubstitution(rep, matched) ==
    IF rep = E THEN E
    ELSE IF Head(rep) = "$" /\ Len(rep) >= 2 /\ rep[2] \in {"$", "&"}
    THEN (IF rep[2] = "$" THEN <<"$">> ELSE matched)
         \o GetSubstitution(SubSeq(rep, 3, Len(rep)), matched)
    ELSE <<Head(rep)>> \o GetSubstitution(Tail(rep), matched)

\* s.replace(pat, rep) with a string pattern: the first occurrence only
Replace(s, pat, rep) ==
    LET i == IndexOf(s, pat)
    IN IF i = 0 THEN s
       ELSE LET before == SubSeq(s, 1, i - 1)
                after == SubSeq(s, i + Len(pat), Len(s))
            IN before \o GetSubstitution(rep, pat) \o after

\* key.split(':').pop(): the text after the last colon
SplitPop(key) ==
    SubSeq(key, LastIndexOf(key, <<":">>) + 1, Len(key))

Digit(d) == <<"0", "1", "2", "3", "4", "5", "6", "7", "8", "9">>[d + 1]

\* String(n) for a natural number
RECURSIVE NumToString(_)
NumToString(n) ==
    IF n < 10 THEN <<Digit(n)>> ELSE NumToString(n \div 10) \o <<Digit(n % 10)>>

RDF_TYPE == <<"h","t","t","p",":","/","/","w","w","w",".","w","3",".","o","r","g","/","1","9","9","9","/","0","2","/","2","2","-","r","d","f","-","s","y","n","t","a","x","-","n","s","#","t","y","p","e">>

HTTPS_SCHEMA == <<"h","t","t","p","s",":","/","/","s","c","h","e","m","a",".","o","r","g","/">>

HTTP_SCHEMA == <<"h","t","t","p",":","/","/","s","c","h","e","m","a",".","o","r","g","/">>

HTTP == <<"h","t","t","p">>

HTTP_SLASHES == <<"h","t","t","p",":","/","/">>

HTTPS_SLASHES == <<"h","t","t","p","s",":","/","/">>

THING == <<"#","t","h","i","n","g">>

AT_TYPE == <<"@","t","y","p","e">>

AT_ID == <<"@","i","d">>

AT_CONTEXT == <<"@","c","o","n","t","e","x","t">>

\* ------------------------------------------------------- JavaScript values

J(t, s, n, e) == [t |-> t, s |-> s, n |-> n, e |-> e]

JUndef == J("undefined", E, 0, E)
JNull == J("null", E, 0, E)
JStr(s) == J("string", s, 0, E)
JNum(n) == J("number", E, n, E)
JBool(b) == J("boolean", E, IF b THEN 1 ELSE 0, E)
JObj(entries) == J("object", E, 0, entries)
JArr(items) == J("array", E, 0, [i \in 1..Len(items) |-> [k |-> NumToString(i - 1), v |-> items[i]]])

Ent(k, v) == [k |-> k, v |-> v]

\* typeof v === 'object' && v !== null
IsObject(v) == v.t \in {"object", "array"}

\* ToBoolean
Truthy(v) ==
    CASE v.t = "undefined" -> FALSE
      [] v.t = "null" -> FALSE
      [] v.t = "string" -> v.s # E
      [] v.t = "number" -> v.n # 0
      [] v.t = "boolean" -> v.n = 1
      [] OTHER -> TRUE

\* a || b
Or(a, b) == IF Truthy(a) THEN a ELSE b

\* String(v) of a primitive
StringOf(v) ==
    CASE v.t = "string" -> v.s
      [] v.t = "number" -> NumToString(v.n)
      [] v.t = "boolean" -> IF v.n = 1 THEN <<"t","r","u","e">> ELSE <<"f","a","l","s","e">>
      [] v.t = "null" -> <<"n","u","l","l">>
      [] OTHER -> <<"u","n","d","e","f","i","n","e","d">>

\* Object.entries(v): the own entries of an object or an array, the indexed
\* characters of a string, nothing for the other primitives
Entries(v) ==
    CASE v.t \in {"object", "array"} -> v.e
      [] v.t = "string" -> [i \in 1..Len(v.s) |-> [k |-> NumToString(i - 1), v |-> JStr(<<v.s[i]>>)]]
      [] OTHER -> E

\* v[key] for a key that is no array index and no built-in member name
Get(v, key) ==
    IF v.t = "object" /\ \E i \in 1..Len(v.e) : v.e[i].k = key
    THEN v.e[CHOOSE i \in 1..Len(v.e) : v.e[i].k = key].v
    ELSE JUndef

\* ------------------------------------------------------------- $rdf terms

\* A subject, predicate or object slot: a term object (obj = TRUE) with its
\* termType, uri and value properties, or a raw JavaScript primitive.
Term(termType, uri, value) ==
    [obj |-> TRUE, termType |-> termType, uri |-> uri, value |-> value, raw |-> JUndef]

Raw(v) == [obj |-> FALSE, termType |-> "", uri |-> JUndef, value |-> JUndef, raw |-> v]

sym(uri) == Term("NamedNode", JStr(uri), JStr(uri))

literal(val) == Term("Literal", JUndef, JStr(StringOf(val)))

\* { value: String(t.o), uri: undefined, termType: 'Literal' }
WrapLiteral(o) == Term("Literal", JUndef, JStr(StringOf(o.raw)))

\* ------------------------------------------------------------ createStore

normalize(uri) ==
    IF uri.t = "string" THEN JStr(Replace(uri.s, HTTPS_SCHEMA, HTTP_SCHEMA)) ELSE uri

\* typeof a === 'object' && a !== null ? a.uri || a.value : a
UriOf(a) == IF a.obj THEN Or(a.uri, a.value) ELSE a.raw

matchUri(a, b) == normalize(UriOf(a)) = normalize(UriOf(b))

Matches(T, s, p) == {i \in 1..Len(T) : matchUri(T[i].s, s) /\ matchUri(T[i].p, p)}

First(S) == CHOOSE i \in S : \A j \in S : i <= j

\* t.o != null
NotNullish(o) == o.obj \/ o.raw.t \notin {"null", "undefined"}

add(T, s, p, o) == Append(T, [s |-> s, p |-> p, o |-> o])

anyValue(T, s, p) ==
    LET m == Matches(T, s, p)
    IN IF m = {} THEN JNull
       ELSE LET o == T[First(m)].o
            IN IF o.obj THEN Or(Or(o.value, o.uri), JNull)
               ELSE IF NotNullish(o) THEN JStr(StringOf(o.raw)) ELSE JNull

any(T, s, p) ==
    LET m == Matches(T, s, p)
    IN IF m = {} THEN Raw(JNull)
       ELSE LET o == T[First(m)].o
            IN IF o.obj THEN o
               ELSE IF NotNullish(o) THEN WrapLiteral(o) ELSE Raw(JNull)

RECURSIVE EachFrom(_, _, _, _)

\* each with every result put in front of the earlier ones
EachFromReversed(T, s, p, i) ==
    IF i > Len(T) THEN <<>>
    ELSE LET t == T[i]
             rest == EachFrom(T, s, p, i + 1)
         IN IF matchUri(t.s, s) /\ matchUri(t.p, p)
            THEN IF t.o.obj THEN rest \o <<t.o>>
                 ELSE IF NotNullish(t.o) THEN rest \o <<WrapLiteral(t.o)>>
                 ELSE rest
            ELSE rest

EachFrom(T, s, p, i) ==
    IF i > Len(T) THEN <<>>
    ELSE LET t == T[i]
             rest == EachFrom(T, s, p, i + 1)
         IN IF matchUri(t.s, s) /\ matchUri(t.p, p)
            THEN IF t.o.obj THEN <<t.o>> \o rest
                 ELSE IF NotNullish(t.o) THEN <<WrapLiteral(t.o)>> \o rest
                 ELSE rest
            ELSE rest

each(T, s, p) == EachFrom(T, s, p, 1)

\* t.p.uri || t.p
PredUri(p) == IF p.obj THEN Or(p.uri, J("object", E, 0, E)) ELSE p.raw

\* findTypeURIs without the index of the alternate http/https variant
TypeKeysStoredOnly(t, s) ==
    IF ~(matchUri(t.s, s) /\ normalize(PredUri(t.p)) = JStr(RDF_TYPE))
    THEN [raised |-> FALSE, keys |-> {}]
    ELSE IF ~t.o.obj /\ t.o.raw.t = "null"
    THEN [raised |-> TRUE, keys |-> {}]
    ELSE LET uri == IF t.o.obj THEN t.o.uri ELSE t.o.raw
         IN IF ~Truthy(uri) THEN [raised |-> FALSE, keys |-> {}]
            ELSE IF uri.t # "string" THEN [raised |-> TRUE, keys |-> {StringOf(uri)}]
            ELSE [raised |-> FALSE, keys |-> {uri.s}]

\* The keys one triple contributes to the result of findTypeURIs, and whether
\* reading it raises a TypeError (t.o.uri of null, startsWith of a non-string)
TypeKeys(t, s) ==
    IF ~(matchUri(t.s, s) /\ normalize(PredUri(t.p)) = JStr(RDF_TYPE))
    THEN [raised |-> FALSE, keys |-> {}]
    ELSE IF ~t.o.obj /\ t.o.raw.t = "null"
    THEN [raised |-> TRUE, keys |-> {}]
    ELSE LET uri == IF t.o.obj THEN t.o.uri ELSE t.o.raw
         IN IF ~Truthy(uri) THEN [raised |-> FALSE, keys |-> {}]
            ELSE IF uri.t # "string" THEN [raised |-> TRUE, keys |-> {StringOf(uri)}]
            ELSE IF StartsWith(uri.s, HTTP_SCHEMA)
            THEN [raised |-> FALSE, keys |-> {uri.s, Replace(uri.s, HTTP_SLASHES, HTTPS_SLASHES)}]
            ELSE IF StartsWith(uri.s, HTTPS_SCHEMA)
            THEN [raised |-> FALSE, keys |-> {uri.s, Replace(uri.s, HTTPS_SLASHES, HTTP_SLASHES)}]
            ELSE [raised |-> FALSE, keys |-> {uri.s}]

RECURSIVE TypesFrom(_, _, _)
TypesFrom(T, s, i) ==
    IF i > Len(T) THEN [raised |-> FALSE, keys |-> {}]
    ELSE LET one == TypeKeys(T[i], s)
         IN IF one.raised THEN [raised |-> TRUE, keys |-> {}]
            ELSE LET rest == TypesFrom(T, s, i + 1)
                 IN [raised |-> rest.raised,
                     keys |-> IF rest.raised THEN {} ELSE one.keys \cup rest.keys]

findTypeURIs(T, s) == TypesFrom(T, s, 1)

\* ----------------------------------------------------- JSON-LD translator

\* The result of resolvePrefix: null, or the resolved string
resolvePrefix(key, context) ==
    IF StartsWith(key, <<"@">>) THEN JNull
    ELSE LET hits == {i \in 1..Len(context) : StartsWith(key, context[i].k \o <<":">>)}
         IN IF hits # {}
            THEN JStr(Replace(key, context[First(hits)].k \o <<":">>, context[First(hits)].v))
            ELSE JStr(key)

RECURSIVE StringEntries(_)
StringEntries(es) ==
    IF es = <<>> THEN <<>>
    ELSE IF Head(es).v.t = "string"
    THEN <<Ent(Head(es).k, Head(es).v.s)>> \o StringEntries(Tail(es))
    ELSE StringEntries(Tail(es))

\* ctx: the string-valued entries of a plain-object @context, in order
BuildContext(jsonld) ==
    LET raw == Get(jsonld, AT_CONTEXT)
    IN IF Truthy(raw) /\ raw.t = "object" THEN StringEntries(raw.e) ELSE <<>>

\* The progress of one translation: the triples pushed so far, the subject of
\* every addTriples call made so far (with the property it was made for), and
\* whether a TypeError has been thrown.
Push(st, s, p, o) == [st EXCEPT !.triples = add(st.triples, s, p, o)]

Throw(st) == [st EXCEPT !.raised = TRUE]

Call(st, subjectUri, parent, key, index) ==
    [st EXCEPT !.calls = Append(st.calls,
        [subject |-> subjectUri, parent |-> parent, key |-> key, index |-> index])]

\* id.startsWith('http') ? id : baseUri + id
ResolveId(id, base) == IF StartsWith(id, HTTP) THEN id ELSE base \o id

\* the blank subject of an array element without its index
ItemBlankIdNoIndex(subjectUri, key, i) == subjectUri \o <<"_">> \o SplitPop(key)

\* subjectUri + '_' + key.split(':').pop() + '_' + i
ItemBlankId(subjectUri, key, i) ==
    subjectUri \o <<"_">> \o SplitPop(key) \o <<"_">> \o NumToString(i)

\* subjectUri + '_' + key.split(':').pop()
BlankId(subjectUri, key) == subjectUri \o <<"_">> \o SplitPop(key)

AddType(st, node, subjectUri, ctx) ==
    LET ty == Get(node, AT_TYPE)
    IN IF ~Truthy(ty) THEN st
       ELSE IF ty.t # "string" THEN Throw(st)
       ELSE Push(st, sym(subjectUri), sym(RDF_TYPE), sym(Or(resolvePrefix(ty.s, ctx), ty).s))

RECURSIVE addTriples(_, _, _, _, _)
RECURSIVE AddEntries(_, _, _, _, _, _)
RECURSIVE AddItems(_, _, _, _, _, _, _)

\* val.forEach((item, i) => ...) from the element at position j on
AddItems(st, items, j, subjectUri, key, ctx, base) ==
    IF st.raised \/ j > Len(items) THEN st
    ELSE LET item == items[j].v
             subject == sym(subjectUri)
             pred == sym(resolvePrefix(key, ctx).s)
             id == Get(item, AT_ID)
             blankId == ItemBlankId(subjectUri, key, j - 1)
             done ==
                IF IsObject(item) /\ ~Truthy(id)
                THEN addTriples(Call(Push(st, subject, pred, sym(blankId)), blankId, subjectUri, key, j - 1),
                                item, blankId, ctx, base)
                ELSE IF IsObject(item)
                THEN IF id.t # "string" THEN Throw(st)
                     ELSE Push(st, subject, pred, sym(ResolveId(id.s, base)))
                ELSE Push(st, subject, pred, Raw(item))
         IN AddItems(done, items, j + 1, subjectUri, key, ctx, base)

AddEntry(st, key, val, subjectUri, ctx, base) ==
    IF StartsWith(key, <<"@">>) THEN st
    ELSE LET predUri == resolvePrefix(key, ctx)
         IN IF ~Truthy(predUri) THEN st
            ELSE LET subject == sym(subjectUri)
                     pred == sym(predUri.s)
                     id == Get(val, AT_ID)
                     blankId == BlankId(subjectUri, key)
                 IN IF val.t = "array"
                    THEN AddItems(st, val.e, 1, subjectUri, key, ctx, base)
                    ELSE IF IsObject(val) /\ Truthy(id)
                    THEN IF id.t # "string" THEN Throw(st)
                         ELSE Push(st, subject, pred, sym(ResolveId(id.s, base)))
                    ELSE IF IsObject(val)
                    THEN addTriples(Call(Push(st, subject, pred, sym(blankId)), blankId, subjectUri, key, -1),
                                    val, blankId, ctx, base)
                    ELSE Push(st, subject, pred, Raw(val))

\* Object.entries(node).forEach(...) from the entry at position i on
AddEntries(st, es, i, subjectUri, ctx, base) ==
    IF st.raised \/ i > Len(es) THEN st
    ELSE AddEntries(AddEntry(st, es[i].k, es[i].v, subjectUri, ctx, base),
                    es, i + 1, subjectUri, ctx, base)

addTriples(st, node, subjectUri, ctx, base) ==
    LET typed == AddType(st, node, subjectUri, ctx)
    IN AddEntries(typed, Entries(node), 1, subjectUri, ctx, base)

rootId(jsonld, base) == base \o StringOf(Or(Get(jsonld, AT_ID), JStr(THING)))

\* parseJsonLdToStore(jsonld, baseUri, store) on a store holding T: the store
\* afterwards, the calls made, whether it threw, and the root it returns
parseJsonLdToStore(jsonld, base, T) ==
    LET st0 == [triples |-> T, calls |-> <<>>, raised |-> FALSE]
    IN IF jsonld.t \in {"null", "undefined"} THEN Throw(st0)
       ELSE addTriples(Call(st0, rootId(jsonld, base), E, E, -1),
                       jsonld, rootId(jsonld, base), BuildContext(jsonld), base)

\* ------------------------------------------------------------- the inputs

MaxItems == 2

MaxAdds == 2

Bases == {<<"h","t","t","p",":","/","/","h","/","d">>, <<"h","t","t","p","s",":","/","/","s","c","h","e","m","a",".","o","r","g","/","d">>}

NAME == <<"n","a","m","e">>

NameX == Ent(NAME, JStr(<<"X">>))

PrefixContext ==
    <<Ent(AT_CONTEXT, JObj(<<Ent(<<"p">>, JStr(HTTP_SCHEMA)),
                               Ent(<<"r","d","f">>, JStr(<<"h","t","t","p",":","/","/","w","w","w",".","w","3",".","o","r","g","/","1","9","9","9","/","0","2","/","2","2","-","r","d","f","-","s","y","n","t","a","x","-","n","s","#">>))>>))>>

\* @context: absent, a prefix mapping, an array (ignored), a mapping with a
\* non-string entry and a replacement pattern in an expansion base
Contexts ==
    { <<>>,
      PrefixContext,
      <<Ent(AT_CONTEXT, JArr(<<JStr(HTTP_SCHEMA)>>))>>,
      <<Ent(AT_CONTEXT, JObj(<<Ent(<<"n">>, JNum(5)), Ent(<<"p">>, JStr(<<"h","t","t","p",":","/","/","x","/","$","&","/">>))>>))>> }

RootIds ==
    { <<>>, <<Ent(AT_ID, JStr(<<"#","m","e">>))>>, <<Ent(AT_ID, JStr(E))>>, <<Ent(AT_ID, JNull)>>,
      <<Ent(AT_ID, JNum(7))>> }

RootTypes ==
    { <<>>, <<Ent(AT_TYPE, JStr(<<"P","e","r","s","o","n">>))>>, <<Ent(AT_TYPE, JStr(<<"p",":","P","e","r","s","o","n">>))>>,
      <<Ent(AT_TYPE, JStr(HTTPS_SCHEMA \o <<"P","e","r","s","o","n">>))>>, <<Ent(AT_TYPE, JStr(E))>>,
      <<Ent(AT_TYPE, JArr(<<JStr(<<"P","e","r","s","o","n">>)>>))>>, <<Ent(AT_TYPE, JNum(5))>> }

Scalars == {JStr(<<"A","d","a">>), JStr(E), JNum(5), JNum(0), JBool(TRUE), JNull}

\* nested objects: anonymous, referenced by an absolute or a relative @id,
\* with an @id that is empty, null or a number, and with nested content
Objects ==
    { JObj(<<NameX>>),
      JObj(<<>>),
      JObj(<<Ent(AT_ID, JStr(<<"h","t","t","p",":","/","/","x","/","1">>)), NameX>>),
      JObj(<<Ent(AT_ID, JStr(<<"#","r">>)), NameX>>),
      JObj(<<Ent(AT_ID, JStr(E)), NameX>>),
      JObj(<<Ent(AT_ID, JNull), NameX>>),
      JObj(<<Ent(AT_ID, JNum(5)), NameX>>),
      JObj(<<Ent(<<"b">>, JObj(<<Ent(NAME, JStr(<<"Y">>))>>))>>),
      JObj(<<Ent(AT_TYPE, JObj(<<>>)), NameX>>) }

Items == {JStr(<<"a">>), JNull, JObj(<<NameX>>), JObj(<<Ent(AT_ID, JStr(<<"h","t","t","p",":","/","/","x","/","1">>)), NameX>>)}

RECURSIVE ItemSeqs(_)
ItemSeqs(n) ==
    IF n = 0 THEN {<<>>}
    ELSE LET shorter == ItemSeqs(n - 1)
         IN shorter \cup {Append(q, x) : q \in {r \in shorter : Len(r) = n - 1}, x \in Items}

Arrays ==
    {JArr(q) : q \in ItemSeqs(MaxItems)}
    \cup {JArr(<<JStr(<<"a">>), JNull, JStr(<<"b">>)>>), JArr(<<JArr(<<JStr(<<"z">>)>>)>>)}

Values == Scalars \cup Objects \cup Arrays

Keys == {NAME, <<"p",":","n","a","m","e">>, <<"q",":","n","a","m","e">>, E, <<"r","d","f",":","t","y","p","e">>, <<"a">>}

\* a second property of the root, after the first
Seconds ==
    { <<>>,
      <<Ent(<<"a","_","0">>, JObj(<<Ent(NAME, JStr(<<"Z">>))>>))>>,
      <<Ent(<<"a","_","b">>, JObj(<<Ent(NAME, JStr(<<"Z">>))>>))>>,
      <<Ent(HTTPS_SCHEMA \o NAME, JStr(<<"B","o","b">>))>> }

\* documents that vary the root's @context, @id and @type
HeaderDocs ==
    {JObj(c \o i \o t \o q) : c \in Contexts, i \in RootIds, t \in RootTypes,
                              q \in {<<>>, <<Ent(<<"p",":","n","a","m","e">>, JStr(<<"A","d","a">>))>>}}

\* documents that vary the shape of the root's properties
PropertyDocs ==
    {JObj(PrefixContext \o <<Ent(AT_TYPE, JStr(<<"p",":","P","e","r","s","o","n">>)), Ent(k, v)>> \o q) :
        k \in Keys, v \in Values, q \in Seconds}

\* documents that are no object at all
PrimitiveDocs == {JNull, JNum(5), JStr(<<"a","b">>)}

\* ------------------------------------------------------------ the program

NoRet ==
    [op |-> "none", s |-> Raw(JUndef), p |-> Raw(JUndef), raised |-> FALSE,
     val |-> JUndef, term |-> Raw(JUndef), list |-> <<>>, keys |-> {}]

\* A caller holds a freshly created store and a parsed document
Init ==
    /\ \/ doc \in HeaderDocs \cup PrimitiveDocs /\ baseUri \in Bases
       \/ doc \in PropertyDocs /\ baseUri = <<"h","t","t","p",":","/","/","h","/","d">>
    /\ pc = "start"
    /\ triples = <<>>
    /\ root = Raw(JUndef)
    /\ calls = <<>>
    /\ ret = NoRet

\* A caller holds a freshly created store and no document
InitStore ==
    /\ doc = JUndef
    /\ baseUri = E
    /\ pc = "store"
    /\ triples = <<>>
    /\ root = Raw(JUndef)
    /\ calls = <<>>
    /\ ret = NoRet

\* const subject = parseJsonLdToStore(jsonld, baseUri, store)
Translate ==
    /\ pc = "start"
    /\ LET r == parseJsonLdToStore(doc, baseUri, triples)
       IN /\ triples' = r.triples
          /\ calls' = r.calls
          /\ pc' = IF r.raised THEN "raised" ELSE "parsed"
          /\ root' = IF r.raised THEN Raw(JUndef) ELSE sym(rootId(doc, baseUri))
    /\ UNCHANGED <<doc, baseUri, ret>>

\* the terms and strings a caller passes to store.add
AddSubjects ==
    { sym(HTTP_SCHEMA \o <<"a">>), sym(HTTPS_SCHEMA \o <<"a">>),
      sym(<<"u",":">> \o HTTPS_SCHEMA \o <<"a">>), sym(<<"u",":">> \o HTTP_SCHEMA \o <<"a">>),
      sym(HTTPS_SCHEMA \o HTTPS_SCHEMA), sym(HTTP_SCHEMA \o HTTPS_SCHEMA) }

AddPredicates == {sym(HTTP_SCHEMA \o NAME), Raw(JStr(HTTPS_SCHEMA \o NAME))}

AddObjects == {literal(JStr(<<"A","d","a">>)), literal(JStr(E)), sym(HTTPS_SCHEMA \o <<"T">>), Raw(JNum(0))}

\* store.add(s, p, o)
Add ==
    /\ pc = "store"
    /\ ret.op = "none"
    /\ Len(triples) < MaxAdds
    /\ \E s \in AddSubjects, p \in AddPredicates, o \in AddObjects :
          triples' = add(triples, s, p, o)
    /\ UNCHANGED <<doc, baseUri, pc, root, calls, ret>>

SwapScheme(uri) ==
    IF StartsWith(uri, HTTPS_SLASHES) THEN HTTP_SLASHES \o SubSeq(uri, 9, Len(uri))
    ELSE IF StartsWith(uri, HTTP_SLASHES) THEN HTTPS_SLASHES \o SubSeq(uri, 8, Len(uri))
    ELSE uri

\* the subjects and predicates a caller asks about
RootSubject == sym(rootId(doc, baseUri))

QuerySubjects ==
    IF pc = "store" THEN AddSubjects
    ELSE {RootSubject, sym(SwapScheme(RootSubject.uri.s)), Raw(RootSubject.uri)}
         \cup {triples[i].s : i \in 1..Len(triples)}

QueryPredicates ==
    IF pc = "store" THEN AddPredicates
    ELSE {sym(RDF_TYPE), sym(HTTPS_SCHEMA \o NAME), sym(<<"a","b","s","e","n","t">>)}
         \cup {triples[i].p : i \in 1..Len(triples)}

\* The caller has filled the store (the translation has returned or thrown,
\* or the caller has made its own adds) and has not queried it yet
Ready == pc \in {"parsed", "raised", "store"} /\ ret.op = "none"

Idle == UNCHANGED <<doc, baseUri, pc, triples, root, calls>>

\* store.anyValue(s, p)
AnyValue ==
    /\ Ready
    /\ \E s \in QuerySubjects, p \in QueryPredicates :
          ret' = [NoRet EXCEPT !.op = "anyValue", !.s = s, !.p = p, !.val = anyValue(triples, s, p)]
    /\ Idle

\* store.any(s, p)
Any ==
    /\ Ready
    /\ \E s \in QuerySubjects, p \in QueryPredicates :
          ret' = [NoRet EXCEPT !.op = "any", !.s = s, !.p = p, !.term = any(triples, s, p)]
    /\ Idle

\* store.each(s, p)
Each ==
    /\ Ready
    /\ \E s \in QuerySubjects, p \in QueryPredicates :
          ret' = [NoRet EXCEPT !.op = "each", !.s = s, !.p = p, !.list = each(triples, s, p)]
    /\ Idle

\* store.findTypeURIs(s)
FindTypeURIs ==
    /\ Ready
    /\ \E s \in QuerySubjects :
          LET r == findTypeURIs(triples, s)
          IN ret' = [NoRet EXCEPT !.op = "findTypeURIs", !.s = s, !.raised = r.raised, !.keys = r.keys]
    /\ Idle

Next == Translate \/ AnyValue \/ Any \/ Each \/ FindTypeURIs

Spec == Init /\ [][Next]_vars

NextStore == Add \/ AnyValue \/ Any \/ Each \/ FindTypeURIs

SpecStore == InitStore /\ [][NextStore]_vars

\* ------------------------------------------------------------- the claims

HasKey(v, key) == v.t = "object" /\ \E i \in 1..Len(v.e) : v.e[i].k = key

Translated == pc \in {"parsed", "raised"}

\* C2: the translator never raises: whatever the shape of @type, @id and
\* @context in a document (here one that is not null itself), the translation
\* returns, and what it returns is a NamedNode.
C2_TranslatorNeverRaises ==
    (Translated /\ doc.t # "null") =>
        (pc = "parsed" /\ root.obj /\ root.termType = "NamedNode")

\* C6: the root subject is baseUri + @id whenever the document has an @id that
\* is not null (the empty string included), and baseUri + "#thing" otherwise;
\* the translation of the root's own properties uses that URI as its subject.
C6_RootUriNullish ==
    pc = "parsed" =>
        /\ root.uri.s = baseUri \o (IF HasKey(doc, AT_ID) /\ Get(doc, AT_ID).t # "null"
                                    THEN StringOf(Get(doc, AT_ID)) ELSE THING)
        /\ calls[1].subject = root.uri.s

\* C9: on a store the translator has populated, no read operation raises, and
\* a query that matches no triple answers null, the empty sequence or the
\* empty mapping.
C9_ReadsNeverRaise ==
    (pc = "parsed" /\ ret.op # "none") =>
        /\ ~ret.raised
        /\ (ret.op = "anyValue" /\ Matches(triples, ret.s, ret.p) = {}) => ret.val = JNull
        /\ (ret.op = "any" /\ Matches(triples, ret.s, ret.p) = {}) => ret.term = Raw(JNull)
        /\ (ret.op = "each" /\ Matches(triples, ret.s, ret.p) = {}) => ret.list = <<>>
        /\ (ret.op = "findTypeURIs" /\ \A i \in 1..Len(triples) : ~matchUri(triples[i].s, ret.s))
              => ret.keys = {}

\* the scalar text of a stored object: a Literal's value, a NamedNode's URI,
\* String(o) of a raw scalar
TextOf(o) ==
    IF ~o.obj THEN StringOf(o.raw)
    ELSE IF o.termType = "Literal" THEN o.value.s ELSE o.uri.s

\* C5: anyValue answers null exactly when no stored triple matches, and
\* otherwise the scalar text of the object of the first matching triple.
C5_AnyValueNullIffNoMatch ==
    ret.op = "anyValue" =>
        LET m == Matches(triples, ret.s, ret.p)
        IN /\ (ret.val = JNull) <=> (m = {})
           /\ m # {} => ret.val = JStr(TextOf(triples[First(m)].o))

\* two URI strings are the same, or one is https://schema.org/X and the other
\* http://schema.org/X
SchemeEquivalent(a, b) ==
    \/ a = b
    \/ /\ StartsWith(a, HTTPS_SCHEMA)
       /\ b = HTTP_SCHEMA \o SubSeq(a, Len(HTTPS_SCHEMA) + 1, Len(a))
    \/ /\ StartsWith(b, HTTPS_SCHEMA)
       /\ a = HTTP_SCHEMA \o SubSeq(b, Len(HTTPS_SCHEMA) + 1, Len(b))

\* C10: the comparison a read makes between a stored subject and the subject
\* asked for succeeds exactly when the two URIs are the same string or differ
\* only in a leading https://schema.org/ against a leading http://schema.org/.
C10_MatchIffLeadingScheme ==
    ret.op # "none" =>
        \A i \in 1..Len(triples) :
            matchUri(triples[i].s, ret.s)
                <=> SchemeEquivalent(UriOf(triples[i].s).s, UriOf(ret.s).s)

RootEntries == Entries(doc)

Context == BuildContext(doc)

IsProperty(e) == ~StartsWith(e.k, <<"@">>)

\* the nested objects of a property value: the value itself, or the objects
\* among the elements of an array, each with its index (-1 for the value)
NestedAt(e) ==
    IF e.v.t = "array"
    THEN {[index |-> i - 1, v |-> e.v.e[i].v] : i \in {j \in 1..Len(e.v.e) : e.v.e[j].v.t = "object"}}
    ELSE IF e.v.t = "object" THEN {[index |-> -1, v |-> e.v]} ELSE {}

HasTriple(s, p, o) ==
    \E i \in 1..Len(triples) : triples[i] = [s |-> s, p |-> p, o |-> o]

\* the object has an @id key (one holding null is left to the reading that
\* counts it as absent)
HasId(v) == HasKey(v, AT_ID) /\ Get(v, AT_ID).t # "null"

\* C7: a nested object of the root that has an @id key gives one reference
\* triple to @id (kept if it starts with http, else after baseUri) and no
\* translation of its own properties; one that has no @id key gives a
\* reference to a blank subject and the translation of its properties.  The
\* presence of the @id key alone decides between the two.
C7_BranchOnIdKey ==
    pc = "parsed" =>
        \A i \in 1..Len(RootEntries) :
            LET e == RootEntries[i]
                pred == resolvePrefix(e.k, Context)
            IN (IsProperty(e) /\ Truthy(pred)) =>
                \A n \in NestedAt(e) :
                    LET recursed == \E c \in 1..Len(calls) :
                                        /\ calls[c].parent = root.uri.s
                                        /\ calls[c].key = e.k
                                        /\ calls[c].index = n.index
                    IN IF HasId(n.v)
                       THEN /\ ~recursed
                            /\ HasTriple(root, sym(pred.s),
                                         sym(ResolveId(StringOf(Get(n.v, AT_ID)), baseUri)))
                       ELSE recursed

\* the resolution the claim describes: the leading "prefix:" of the first
\* matching context entry replaced by its expansion base, else the key itself
LeadingPrefixReplaced(key, context) ==
    LET hits == {i \in 1..Len(context) : StartsWith(key, context[i].k \o <<":">>)}
    IN IF hits = {} THEN key
       ELSE context[First(hits)].v
            \o SubSeq(key, Len(context[First(hits)].k) + 2, Len(key))

\* C8: every own key of the root that does not start with "@" and whose value
\* is not an empty array has a triple with the root as subject and the key's
\* resolution as predicate (asked here of the keys whose resolution is not
\* the empty string).
C8_NoKeyDropped ==
    pc = "parsed" =>
        \A i \in 1..Len(RootEntries) :
            LET e == RootEntries[i]
            IN (/\ IsProperty(e)
                /\ ~(e.v.t = "array" /\ Len(e.v.e) = 0)
                /\ LeadingPrefixReplaced(e.k, Context) # E) =>
                \E t \in 1..Len(triples) :
                    /\ triples[t].s = root
                    /\ triples[t].p = sym(LeadingPrefixReplaced(e.k, Context))

\* the other-scheme form of a URI under schema.org
Counterpart(u) ==
    IF StartsWith(u, HTTP_SCHEMA)
    THEN {HTTPS_SCHEMA \o SubSeq(u, Len(HTTP_SCHEMA) + 1, Len(u))}
    ELSE IF StartsWith(u, HTTPS_SCHEMA)
    THEN {HTTP_SCHEMA \o SubSeq(u, Len(HTTPS_SCHEMA) + 1, Len(u))}
    ELSE {}

\* the resolved @type of the root with its counterpart; nothing when the root
\* has no @type that is a non-empty string
ExpectedTypeKeys ==
    LET ty == Get(doc, AT_TYPE)
    IN IF ty.t = "string" /\ ty.s # E
       THEN LET r == Or(resolvePrefix(ty.s, Context), ty).s IN {r} \cup Counterpart(r)
       ELSE {}

\* no property key of the root resolves to the rdf:type URI
NoTypeProperty ==
    \A i \in 1..Len(RootEntries) :
        IsProperty(RootEntries[i]) => resolvePrefix(RootEntries[i].k, Context) # JStr(RDF_TYPE)

C3_BlankSubjectsUnique ==
    pc = "parsed" =>
        \A i, j \in 1..Len(calls) : i # j => calls[i].subject # calls[j].subject

\* C3 (amended): every blank subject is its parent subject followed by "_" and
\* the last segment of the key (and by "_" and the index for an array
\* element), differs from the root subject, and differs from the blank subject
\* of every other element of the same array; blank subjects of objects under
\* different keys or parents can coincide.
C3_BlankSubjectsUniquePerArray ==
    Translated =>
        \A i \in 2..Len(calls) :
            LET c == calls[i]
            IN /\ c.subject # calls[1].subject
               /\ c.subject = c.parent \o <<"_">> \o SplitPop(c.key)
                              \o (IF c.index < 0 THEN E ELSE <<"_">> \o NumToString(c.index))
               /\ \A j \in 2..Len(calls) :
                     (/\ calls[j].parent = c.parent
                      /\ calls[j].key = c.key
                      /\ calls[j].index # c.index) => calls[j].subject # c.subject

C3_Witness ==
    /\ pc = "parsed"
    /\ \E i, j \in 2..Len(calls) :
          /\ calls[j].parent = calls[i].parent
          /\ calls[j].key = calls[i].key
          /\ calls[j].index # calls[i].index

\* a stored object as a term: itself, or a raw scalar wrapped as a Literal
AsTerm(o) == IF o.obj THEN o ELSE Term("Literal", JUndef, JStr(StringOf(o.raw)))

Rank(S, i) == Cardinality({j \in S : j <= i})

\* the list holds the objects of the triples at the positions S, in order
ListsInOrder(list, S) ==
    /\ Len(list) = Cardinality(S)
    /\ \A i \in S : list[Rank(S, i)] = AsTerm(triples[i].o)

\* the array-valued properties of the root that alone resolve to the
\* predicate asked for
ArrayAskedFor ==
    {i \in 1..Len(RootEntries) :
        /\ IsProperty(RootEntries[i])
        /\ RootEntries[i].v.t = "array"
        /\ Truthy(resolvePrefix(RootEntries[i].k, Context))
        /\ ret.p = sym(resolvePrefix(RootEntries[i].k, Context).s)
        /\ ~matchUri(ret.p, sym(RDF_TYPE))
        /\ \A j \in 1..Len(RootEntries) :
              (j # i /\ IsProperty(RootEntries[j])) =>
                  ~matchUri(ret.p, Raw(resolvePrefix(RootEntries[j].k, Context)))}

\* the list has one entry per element of the array at the positions S, in
\* array order: a raw scalar wrapped as a Literal, an object as a NamedNode
ListsElements(list, items, S) ==
    /\ Len(list) = Cardinality(S)
    /\ \A j \in S :
          IF IsObject(items[j].v) THEN list[Rank(S, j)].termType = "NamedNode"
          ELSE list[Rank(S, j)] = AsTerm(Raw(items[j].v))

\* C4 (as stated): each(s, p) lists one term per matching triple, in insertion
\* order; after a translation, each(root, P) lists one entry per element of
\* an array-valued property of the root, in array order.
C4_EachOnePerMatch ==
    (pc = "parsed" /\ ret.op = "each") =>
        /\ ListsInOrder(ret.list, Matches(triples, ret.s, ret.p))
        /\ ret.s = root =>
              \A i \in ArrayAskedFor :
                  ListsElements(ret.list, RootEntries[i].v.e, 1..Len(RootEntries[i].v.e))

\* C4 (amended): each(s, p) lists one term per matching triple whose object is
\* not null, in insertion order; after a translation, each(root, P) lists one
\* entry per element that is not null of an array-valued property of the root
\* (the only key resolving to P, P being neither empty nor rdf:type), in
\* array order.
C4_EachOnePerNonNullMatch ==
    (pc = "parsed" /\ ret.op = "each") =>
        /\ ListsInOrder(ret.list,
              {i \in Matches(triples, ret.s, ret.p) :
                  triples[i].o.obj \/ triples[i].o.raw.t # "null"})
        /\ ret.s = root =>
              \A i \in ArrayAskedFor :
                  ListsElements(ret.list, RootEntries[i].v.e,
                      {j \in 1..Len(RootEntries[i].v.e) : RootEntries[i].v.e[j].v.t # "null"})

C4_Witness ==
    /\ pc = "parsed"
    /\ ret.op = "each"
    /\ ret.s = root
    /\ ArrayAskedFor # {}
    /\ Len(ret.list) = 2
    /\ Cardinality(Matches(triples, ret.s, ret.p)) = 3

====
